---- MODULE Spec2Model ----
(***************************************************************************)
(* Model of src/script.js: the portfolio renderer.                         *)
(*                                                                         *)
(* init() starts three fetches (user.json, skills.json, ratings.json),     *)
(* awaits them jointly, substitutes embedded fallbacks, validates the      *)
(* shapes, normalizes the skills, populates the header, renders the grid   *)
(* and the statistics and wires the modal's close handlers.  Afterwards    *)
(* the page reacts to card clicks, close-button clicks, backdrop clicks    *)
(* and Escape key presses.                                                 *)
(*                                                                         *)
(* JavaScript runs every callback to completion, so the model has one      *)
(* action per callback: one per fetch that settles, one for the whole      *)
(* continuation of init after its await, one per user-interface event.     *)
(*                                                                         *)
(* Representation of JavaScript values.  A field that the JSON document    *)
(* does not carry (undefined) is NoValue for strings and NoNum for         *)
(* numbers.  The page's markup (index.html) is not part of src/; the model *)
(* takes every element the script looks up by id to be present and the     *)
(* modal to start with the class "hidden".                                 *)
(***************************************************************************)
EXTENDS Integers, Sequences, FiniteSets, TLC

\* ------------------------------------------------------------------------
\* Bounds of the model
\* ------------------------------------------------------------------------
\* Longest skills.json list that is explored.
MaxSkills == 2

\* ------------------------------------------------------------------------
\* JavaScript values
\* ------------------------------------------------------------------------
\* undefined, for a string-valued field.
NoValue == "<undefined>"
\* undefined, for a number-valued field (ratings, priorities and year counts
\* of the documents explored are non-negative).
NoNum == -1
\* A truthy value that is not a string (such as the number 42) in a
\* string-valued field.
NonString == "<number 42>"

\* Truthiness of a string-valued field: undefined and "" are falsy.
Truthy(s) == s # NoValue /\ s # ""
\* a || b for string-valued fields.
Or(a, b) == IF Truthy(a) THEN a ELSE b

\* String.prototype.toLowerCase on the category strings explored.
ToLowerCase(s) ==
  CASE s = "Programming" -> "programming"
    [] s = "Tools"       -> "tools"
    [] OTHER             -> s

\* String.prototype.localeCompare on the names explored: the rank of a name
\* in the collation order; "" sorts first.
CollationOrder == <<"", "Go", "JavaScript", "Nmap", "Python", "Rust">>
Rank(name) == CHOOSE i \in 1..Len(CollationOrder) : CollationOrder[i] = name
LocaleCompare(a, b) ==
  IF Rank(a) < Rank(b) THEN -1 ELSE IF Rank(a) > Rank(b) THEN 1 ELSE 0

\* ------------------------------------------------------------------------
\* Dates.  startDate is a date-only ISO string "YYYY-MM-DD", a string that
\* does not parse, or missing.
\* ------------------------------------------------------------------------
IsoDate(y, m, d) == [kind |-> "iso", y |-> y, m |-> m, d |-> d]
\* startDate missing (falsy).
NoDate == [kind |-> "none", y |-> 0, m |-> 0, d |-> 0]
\* startDate present but unparseable: new Date(d) is an Invalid Date.
BadDate == [kind |-> "invalid", y |-> 0, m |-> 0, d |-> 0]
\* The em-dash placeholder of the modal's start-date slot.
EmDash == [kind |-> "dash", y |-> 0, m |-> 0, d |-> 0]

IsLeap(y) == (y % 4 = 0 /\ y % 100 # 0) \/ y % 400 = 0
DaysIn(y, m) ==
  IF m = 2 THEN (IF IsLeap(y) THEN 29 ELSE 28)
  ELSE IF m \in {4, 6, 9, 11} THEN 30 ELSE 31

\* The calendar day before (y, m, d).
PrevDay(dt) ==
  IF dt.d > 1 THEN IsoDate(dt.y, dt.m, dt.d - 1)
  ELSE IF dt.m > 1 THEN IsoDate(dt.y, dt.m - 1, DaysIn(dt.y, dt.m - 1))
  ELSE IsoDate(dt.y - 1, 12, 31)

\* new Date("YYYY-MM-DD") is midnight UTC of that day.  getFullYear, getMonth
\* and getDate read it in the local time zone: the same calendar day in a
\* zone at or ahead of UTC ("east"), the day before in a zone behind UTC
\* ("west").
TimeZones == {"east", "west"}
LocalFields(dt, zone) == IF zone = "west" THEN PrevDay(dt) ELSE dt

\* Date.prototype.getTime, up to a monotone rescaling: orders the instants.
GetTime(dt) == dt.y * 10000 + dt.m * 100 + dt.d

Max2(a, b) == IF a >= b THEN a ELSE b
Min2(a, b) == IF a <= b THEN a ELSE b

\* ------------------------------------------------------------------------
\* Rating label helper
\* ------------------------------------------------------------------------
ratingLabel(n) ==
  IF n >= 9 THEN "Expert"
  ELSE IF n >= 7 THEN "Advanced"
  ELSE IF n >= 4 THEN "Intermediate"
  ELSE "Beginner"

\* ------------------------------------------------------------------------
\* The documents.  A skill record carries the fields the script reads.
\* ------------------------------------------------------------------------
Skill(id, name, catId, cat, prio, vis, start, img, descr, projs, ress) ==
  [id |-> id, name |-> name, categoryId |-> catId, category |-> cat,
   priority |-> prio, visible |-> vis, startDate |-> start,
   imageUrl |-> img, description |-> descr,
   projects |-> projs, resources |-> ress]

Resource(name, url) == [name |-> name, url |-> url]

\* The embedded fallback skills.
FallbackPython ==
  Skill("python", "Python", "programming", "Programming", 10, "true",
        IsoDate(2021, 6, 1), "Python-logo-notext.svg",
        "Primary language for backend development, scripting, and cybersecurity tasks.",
        <<"Developed a port scanner", "Built REST APIs">>,
        <<Resource("Official Docs", "https://docs.python.org/3/")>>)
FallbackJavaScript ==
  Skill("javascript", "JavaScript", "programming", "Programming", 9, "true",
        IsoDate(2022, 1, 15), "JavaScript-logo.png",
        "Used for frontend interactivity and dynamic web apps.",
        <<"Built portfolio website">>,
        <<Resource("MDN", "https://developer.mozilla.org/")>>)

\* Skills a fetched skills.json may list.  They cover: categoryId present,
\* only a category string, neither; visible true, false and missing; a
\* priority missing; a start date valid (past and future), unparseable and
\* missing; project and resource lists filled and empty (a missing list reads
\* as an empty one: skill.projects || []); ids that FALLBACK_RATINGS knows and
\* ids it does not; a category that is not a string; in one group, skills of
\* different priorities, of equal priority and different names, and of equal
\* priority (0 and missing) and equal name.
SkillPool ==
  { Skill("python", "Python", "programming", NoValue, 10, "true",
          IsoDate(2021, 6, 1), "py.svg", "Scripting",
          <<"Port scanner", "REST APIs">>, <<Resource("Docs", "https://docs.python.org/3/")>>),
    Skill("javascript", "JavaScript", "programming", "Programming", 10, NoValue,
          NoDate, NoValue, NoValue,
          <<"Portfolio">>, <<Resource(NoValue, "https://developer.mozilla.org/"),
                             Resource(NoValue, NoValue)>>),
    Skill("go", "Go", NoValue, "Programming", NoNum, "true",
          BadDate, "go.svg", "Services", <<>>, <<>>),
    Skill("golang", "Go", NoValue, "Programming", 0, "true",
          IsoDate(2023, 5, 31), NoValue, "Compilers", <<>>, <<>>),
    Skill("nmap", "Nmap", "", "", 0, "true",
          IsoDate(2025, 1, 1), NoValue, "Scanning", <<"Lab audit">>, <<>>),
    Skill("rust", "Rust", "tools", "Tools", 10, "false",
          IsoDate(2020, 1, 1), "rust.svg", "Tooling",
          <<"CLI">>, <<Resource("Book", NoValue)>>),
    Skill("bad", "Nmap", NoValue, NonString, 0, "true",
          NoDate, NoValue, NoValue, <<>>, <<>>) }

SkillIds == {s.id : s \in SkillPool}

\* Lists of at most MaxSkills skills with distinct ids.
SkillLists ==
  UNION { { l \in [1..n -> SkillPool] : \A i, j \in 1..n : i # j => l[i].id # l[j].id }
          : n \in 0..MaxSkills }

\* A payload of skills.json: a sequence, an object that is not a sequence, or
\* the JSON value null.
SkillsPayload(kind, items) == [kind |-> kind, items |-> items]
SkillsPayloads ==
  { SkillsPayload("array", l) : l \in SkillLists }
    \cup { SkillsPayload("object", <<>>), SkillsPayload("null", <<>>) }

\* A payload of ratings.json: a mapping from skill ids to ratings (NoNum: the
\* id is no key of it), a sequence, or the JSON value null.
NoRatings == [id \in SkillIds |-> NoNum]
RatingsPayload(kind, map) == [kind |-> kind, map |-> map]
RatingsPayloads ==
  { RatingsPayload("object", NoRatings),
    RatingsPayload("object", [NoRatings EXCEPT !["python"] = 9, !["go"] = 12,
                                               !["nmap"] = 4, !["rust"] = 0]),
    RatingsPayload("array", NoRatings),
    RatingsPayload("null", NoRatings) }

\* A payload of user.json: a User record or the JSON value null.  socialLinks
\* is "list" (a sequence of links), "none" (missing) or "bad" (a truthy value
\* with no forEach, such as a string).  categories maps a category id to its
\* display name (NoValue: the id is not in skillCategories).
CategoryIds == {"programming", "tools", "cybersecurity", "systems"}
NoCategories == [c \in CategoryIds |-> NoValue]
User(kind, name, totalYears, socialLinks, categories) ==
  [kind |-> kind, name |-> name, totalYears |-> totalYears,
   socialLinks |-> socialLinks, categories |-> categories]
UserPayloads ==
  { User("object", "Ada", NoNum, "list", NoCategories),
    User("object", "Ada", 0, "none", [NoCategories EXCEPT !["programming"] = "Dev"]),
    User("object", NoValue, 2, "bad", [NoCategories EXCEPT !["tools"] = "Toolbox"]),
    User("null", NoValue, NoNum, "none", NoCategories) }

\* ------------------------------------------------------------------------
\* Fallback data for offline/file:// testing
\* ------------------------------------------------------------------------
FALLBACK_USER ==
  User("object", "Rupam Ghosh", 4, "list",
       [c \in CategoryIds |->
          CASE c = "cybersecurity" -> "Cybersecurity Skills"
            [] c = "programming"   -> "Programming & Development"
            [] c = "systems"       -> "Systems & Infrastructure"
            [] c = "tools"         -> "Tools & Technologies"])

FALLBACK_SKILLS == SkillsPayload("array", <<FallbackPython, FallbackJavaScript>>)

\* The embedded ratings left empty.
FALLBACK_RATINGS_Empty == RatingsPayload("object", NoRatings)
FALLBACK_RATINGS ==
  RatingsPayload("object", [NoRatings EXCEPT !["python"] = 8, !["javascript"] = 7])

\* Truthiness of a payload: null is the falsy one.
TruthyPayload(p) == p.kind # "null"

\* ------------------------------------------------------------------------
\* Experience calculation
\* ------------------------------------------------------------------------
\* The instants of the valid start dates: .map(s => s.startDate)
\* .filter(Boolean).map(d => new Date(d)).filter(d => !isNaN(d)).
ValidDates(skills) ==
  { skills[i].startDate : i \in {j \in 1..Len(skills) : skills[j].startDate.kind = "iso"} }

\* The date fields of "now" are local ones; zone is the local time zone.
computeExperienceYearsFromSkills(skills, now, zone) ==
  LET dates == ValidDates(skills) IN
  IF dates = {} THEN 0
  ELSE
    LET earliestUtc == CHOOSE d \in dates : \A e \in dates : GetTime(d) <= GetTime(e)
        earliest == LocalFields(earliestUtc, zone)
        years == now.y - earliest.y
        adjust == IF now.m < earliest.m \/ (now.m = earliest.m /\ now.d < earliest.d)
                  THEN 1 ELSE 0
    IN Max2(0, years - adjust)

\* ------------------------------------------------------------------------
\* Init's data preparation
\* ------------------------------------------------------------------------
\* userRes.status === 'fulfilled' ? userRes.value : null, per resource: the
\* value init holds before the fallbacks.  A settled result is
\* [status, value]; null is the payload NullOf.
MappedValue(res, nullPayload) ==
  IF res.status = "fulfilled" THEN res.value ELSE nullPayload

\* if (!data) data = FALLBACK.
WithFallback(data, fallback) == IF ~TruthyPayload(data) THEN fallback ELSE data

\* Validate shapes.
ValidSkills(skillsData) == skillsData.kind = "array"
\* typeof: 'object' for objects, arrays and null.
TypeOf(p) == IF p.kind \in {"object", "array", "null"} THEN "object" ELSE p.kind
IsArray(p) == p.kind = "array"
\* The validation without its Array.isArray test: a sequence passes as a mapping.
ValidRatingsNoArrayCheck(ratingsData) ==
  ~(~TruthyPayload(ratingsData) \/ TypeOf(ratingsData) # "object")
ValidRatings(ratingsData) ==
  ~(~TruthyPayload(ratingsData) \/ TypeOf(ratingsData) # "object" \/ IsArray(ratingsData))

\* categoriesMap[key]: undefined unless key is an id of user.skillCategories.
CategoryName(categoriesMap, key) ==
  IF key \in CategoryIds THEN categoriesMap[key] ELSE NoValue

\* if (!s.category && s.categoryId && categoriesMap[s.categoryId])
\*   s.category = categoriesMap[s.categoryId]
NormalizeSkill(s, categoriesMap) ==
  IF ~Truthy(s.category) /\ Truthy(s.categoryId)
       /\ Truthy(CategoryName(categoriesMap, s.categoryId))
  THEN [s EXCEPT !.category = CategoryName(categoriesMap, s.categoryId)]
  ELSE s
NormalizeSkills(skills, categoriesMap) ==
  [i \in 1..Len(skills) |-> NormalizeSkill(skills[i], categoriesMap)]

\* Number(user.experience.totalYears): NaN when it is undefined.  The value of
\* (userData && userData.experience && Number(...)) || computed || 0.
ExperienceYears(userData, computed) ==
  IF userData.totalYears # NoNum /\ userData.totalYears # 0
  THEN userData.totalYears
  ELSE IF computed # 0 THEN computed ELSE 0

\* ------------------------------------------------------------------------
\* renderSkillsGrid
\* ------------------------------------------------------------------------
\* s.visible === false skips the skill.
IsVisible(s) == s.visible # "false"

\* The group key without toLowerCase.
GroupKeyNoLowerCase(s) ==
  IF Truthy(s.categoryId) THEN s.categoryId
  ELSE IF Truthy(s.category) THEN s.category
  ELSE "uncategorized"
\* s.categoryId || (s.category ? s.category.toLowerCase() : 'uncategorized')
GroupKey(s) ==
  IF Truthy(s.categoryId) THEN s.categoryId
  ELSE IF Truthy(s.category) THEN ToLowerCase(s.category)
  ELSE "uncategorized"

\* s.category.toLowerCase is not a function: a TypeError.
GroupKeyThrows(s) == ~Truthy(s.categoryId) /\ s.category = NonString

\* The index of the group with this key, 0 if there is none.
GroupIndex(groups, key) ==
  IF \E i \in 1..Len(groups) : groups[i].key = key
  THEN CHOOSE i \in 1..Len(groups) : groups[i].key = key
  ELSE 0

\* One turn of skills.forEach: create the group if needed, push the skill.
AddToGroups(groups, s, categoriesMap) ==
  IF ~IsVisible(s) THEN groups
  ELSE
    LET key == GroupKey(s)
        at == GroupIndex(groups, key)
    IN IF at = 0
       THEN Append(groups,
              [key |-> key,
               title |-> Or(CategoryName(categoriesMap, key), Or(s.category, key)),
               items |-> <<s>>])
       ELSE [groups EXCEPT ![at].items = Append(@, s)]

RECURSIVE GroupSkills(_, _, _, _)
GroupSkills(groups, skills, i, categoriesMap) ==
  IF i > Len(skills) THEN groups
  ELSE GroupSkills(AddToGroups(groups, skills[i], categoriesMap), skills, i + 1,
                   categoriesMap)

\* The comparator without "|| 0": a missing priority makes the difference
\* NaN, which is falsy, so the names decide.
CompareSkillsNoDefault(a, b) ==
  IF a.priority # NoNum /\ b.priority # NoNum /\ b.priority - a.priority # 0
  THEN b.priority - a.priority
  ELSE LocaleCompare(Or(a.name, ""), Or(b.name, ""))
\* (b.priority || 0) - (a.priority || 0) || (a.name || '').localeCompare(b.name || '')
Priority(s) == IF s.priority = NoNum THEN 0 ELSE s.priority
CompareSkills(a, b) ==
  IF Priority(b) - Priority(a) # 0 THEN Priority(b) - Priority(a)
  ELSE LocaleCompare(Or(a.name, ""), Or(b.name, ""))

\* Array.prototype.sort is stable: an item goes after every item that does not
\* compare greater than it.
InsertSorted(sorted, s) ==
  LET k == Cardinality({i \in 1..Len(sorted) : CompareSkills(sorted[i], s) <= 0})
  IN SubSeq(sorted, 1, k) \o <<s>> \o SubSeq(sorted, k + 1, Len(sorted))
RECURSIVE SortItems(_, _, _)
SortItems(sorted, items, i) ==
  IF i > Len(items) THEN sorted
  ELSE SortItems(InsertSorted(sorted, items[i]), items, i + 1)

\* (ratings && ratings[skill.id] !== undefined) ? ratings[skill.id] : 0
RatingOf(ratings, id) == IF ratings.map[id] # NoNum THEN ratings.map[id] ELSE 0

\* createSkillCard: what the card shows, and the (skill, rating) its click
\* handler is bound to.
createSkillCard(skill, rating) ==
  [skill |-> skill, rating |-> rating,
   img |-> Or(skill.imageUrl, "https://via.placeholder.com/80?text=Skill"),
   name |-> skill.name, category |-> Or(skill.category, ""),
   label |-> ratingLabel(rating), description |-> Or(skill.description, "")]

\* One rendered section: the title, the item count of the header and the cards.
RenderSection(group, ratings) ==
  LET items == SortItems(<<>>, group.items, 1) IN
  [key |-> group.key, title |-> group.title, count |-> Len(items),
   cards |-> [i \in 1..Len(items) |->
                createSkillCard(items[i], RatingOf(ratings, items[i].id))]]

\* The outcome of renderSkillsGrid: whether it threw, and if not the sections
\* appended to the main element and the three numbers handed to renderStats.
renderSkillsGrid(skills, ratings, categoriesMap, now, zone) ==
  IF \E i \in 1..Len(skills) : IsVisible(skills[i]) /\ GroupKeyThrows(skills[i])
  THEN [threw |-> TRUE, sections |-> <<>>, totalSkills |-> NoNum,
        totalCategories |-> NoNum, experienceYears |-> NoNum]
  ELSE
    LET groups == GroupSkills(<<>>, skills, 1, categoriesMap) IN
    [threw |-> FALSE,
     sections |-> [g \in 1..Len(groups) |-> RenderSection(groups[g], ratings)],
     totalSkills |-> Cardinality({i \in 1..Len(skills) : IsVisible(skills[i])}),
     totalCategories |-> Len(groups),
     experienceYears |->
       LET y == computeExperienceYearsFromSkills(skills, now, zone)
       IN IF y # 0 THEN y ELSE 0]

\* `${experienceYears}+`
ExperienceText(years) == <<years, "+">>

\* ------------------------------------------------------------------------
\* Modal helpers
\* ------------------------------------------------------------------------
\* The list element not emptied before the new entries are appended.
ClearListKeeps(entries) == entries
\* element.innerHTML = '' on a list element: no entry is left.
ClearList(entries) == <<>>

\* Math.max(0, Math.min(10, Number(rating || 0)))
RatingNormalized(rating) == Max2(0, Min2(10, rating))

\* The <li> entries appended to the project list.
ProjectEntries(skill) ==
  IF Len(skill.projects) = 0 THEN <<"No projects listed.">> ELSE skill.projects

\* The entries appended to the resource list: a link's text and href, or the
\* placeholder.
ResourceEntry(r) ==
  [text |-> Or(r.name, Or(r.url, "link")), href |-> Or(r.url, "#")]
ResourceEntries(skill) ==
  IF Len(skill.resources) = 0
  THEN <<[text |-> "No resources available.", href |-> NoValue]>>
  ELSE [i \in 1..Len(skill.resources) |-> ResourceEntry(skill.resources[i])]

\* The modal before any skill was opened: hidden, its slots empty.
ModalAtLoad ==
  [hidden |-> TRUE, img |-> "", title |-> "", category |-> "", description |-> "",
   barWidth |-> 0, ratingText |-> <<>>, startDate |-> NoDate,
   projects |-> <<>>, resources |-> <<>>]

\* openSkillModal: the modal element after the call.
openSkillModal(modal, skill, rating) ==
  LET n == RatingNormalized(rating) IN
  [hidden |-> FALSE,
   img |-> Or(skill.imageUrl, "https://via.placeholder.com/80?text=Skill"),
   title |-> Or(skill.name, ""),
   category |-> Or(skill.category, Or(skill.categoryId, "Uncategorized")),
   description |-> Or(skill.description, ""),
   barWidth |-> (n * 100) \div 10,
   ratingText |-> <<n, "/10", ratingLabel(n)>>,
   startDate |-> IF skill.startDate.kind = "none" THEN EmDash ELSE skill.startDate,
   projects |-> ClearList(modal.projects) \o ProjectEntries(skill),
   resources |-> ClearList(modal.resources) \o ResourceEntries(skill)]

\* close() with classList.toggle in place of classList.add.
CloseModalToggle(modal) == [modal EXCEPT !.hidden = ~@]
\* close(): modal.classList.add('hidden').
CloseModal(modal) == [modal EXCEPT !.hidden = TRUE]

\* The keydown listener: close() if the key is Escape and the modal is shown.
OnKeydown(modal, key) ==
  IF key = "Escape" /\ ~modal.hidden THEN CloseModal(modal) ELSE modal

\* ------------------------------------------------------------------------
\* User header/footer population
\* ------------------------------------------------------------------------
\* The header before populateHeader ran.
HeaderAtLoad == [name |-> NoValue, social |-> "untouched", footerName |-> NoValue]

\* populateHeader: whether it threw, and the header it left.  A socialLinks
\* value without forEach throws after the profile fields were written and the
\* social container was cleared, before the footer is written.
populateHeader(user) ==
  LET fields == [HeaderAtLoad EXCEPT !.name = Or(user.name, "-"), !.social = "cleared"] IN
  IF user.socialLinks = "bad"
  THEN [threw |-> TRUE, header |-> fields]
  ELSE [threw |-> FALSE,
        header |-> [fields EXCEPT !.social = IF user.socialLinks = "list" THEN "links"
                                             ELSE "cleared",
                                  !.footerName = Or(user.name, "-")]]

\* ------------------------------------------------------------------------
\* State
\* ------------------------------------------------------------------------
Resources == {"user", "skills", "ratings"}

\* The JSON value null, per resource.
NullOf(r) ==
  CASE r = "user"    -> User("null", NoValue, NoNum, "none", NoCategories)
    [] r = "skills"  -> SkillsPayload("null", <<>>)
    [] r = "ratings" -> RatingsPayload("null", NoRatings)

\* What a fetch can end with: the parsed document, or a rejection (network
\* error, HTTP status, unparseable body).
Outcome(ok, value) == [ok |-> ok, value |-> value]
Outcomes(r) ==
  LET payloads == CASE r = "user"    -> UserPayloads
                    [] r = "skills"  -> SkillsPayloads
                    [] r = "ratings" -> RatingsPayloads
  IN { Outcome(TRUE, v) : v \in payloads } \cup { Outcome(FALSE, NullOf(r)) }

\* The local date new Date() can give while init runs: the anniversary of one
\* start date of the pool and the eve of the anniversary of another.
Nows == { IsoDate(2024, 5, 31) }

VARIABLES
  net,            \* per resource, what its fetch ends with once it settles
  now,            \* the local date new Date() gave init
  zone,           \* the local time zone
  results,        \* per resource, the state of the promise fetchJSON returned
  pc,             \* "awaiting", "halted", "crashed" or "done"
  userData,       \* init's userData, skillsData, ratingsData
  skillsData,
  ratingsData,
  main,           \* the element skills-main
  header,         \* the header and footer slots
  totalSkills,    \* the slot total-skills
  totalCategories,\* the slot total-categories
  expWrites,      \* the texts written to the slot experience-years, in order
  caught,         \* the call sites whose exception init caught and logged
  modalWired,     \* whether setupModalClose added its listeners
  modal,          \* the modal element and its slots
  lastOpened,     \* the card whose click handler ran last
  lastEvent,      \* the user-interface event handled last
  prevModal,      \* the modal before that event
  lastEffective   \* the last event that changed the modal: "open" or "close"

vars == <<net, now, zone, results, pc, userData, skillsData,
          ratingsData, main, header, totalSkills, totalCategories, expWrites,
          caught, modalWired, modal, lastOpened, lastEvent, prevModal,
          lastEffective>>

clock == <<now, zone>>
initVars == <<pc, userData, skillsData, ratingsData, main, header, totalSkills,
              totalCategories, expWrites, caught, modalWired>>
modalVars == <<modal, lastOpened, lastEvent, prevModal, lastEffective>>

\* showLoader(text): the main element holds the loader paragraph only.
showLoader(text) == [kind |-> "loader", text |-> text, sections |-> <<>>]

NoCard == [section |-> 0, card |-> 0]

\* The page once init has run up to its await: the loader is shown and the
\* three fetches are pending.
Init ==
  /\ \E u \in Outcomes("user"), s \in Outcomes("skills"), t \in Outcomes("ratings") :
        net = [r \in Resources |->
                 CASE r = "user" -> u [] r = "skills" -> s [] r = "ratings" -> t]
  /\ now = NoDate
  /\ zone = "east"
  /\ results = [r \in Resources |-> [status |-> "pending", value |-> NullOf(r)]]
  /\ pc = "awaiting"
  /\ userData = NullOf("user")
  /\ skillsData = NullOf("skills")
  /\ ratingsData = NullOf("ratings")
  /\ main = showLoader("Initializing skill matrix... Accessing data nodes...")
  /\ header = HeaderAtLoad
  /\ totalSkills = NoNum
  /\ totalCategories = NoNum
  /\ expWrites = <<>>
  /\ caught = {}
  /\ modalWired = FALSE
  /\ modal = ModalAtLoad
  /\ lastOpened = NoCard
  /\ lastEvent = "none"
  /\ prevModal = ModalAtLoad
  /\ lastEffective = "none"

\* ------------------------------------------------------------------------
\* The fetches
\* ------------------------------------------------------------------------
\* fetchJSON(path) settles: fulfilled with the parsed document, or rejected
\* (the catch block logs and rethrows).
fetchJSON(outcome) ==
  IF outcome.ok THEN [status |-> "fulfilled", value |-> outcome.value]
  ELSE [status |-> "rejected", value |-> outcome.value]

FetchSettles(r) ==
  /\ results[r].status = "pending"
  /\ results' = [results EXCEPT ![r] = fetchJSON(net[r])]
  /\ UNCHANGED <<net, clock, initVars, modalVars>>

\* A race in place of the barrier: init resumes once any promise has settled.
AnySettled(res) == \E r \in Resources : res[r].status # "pending"
\* await Promise.allSettled([...]) resumes init once no promise is pending.
AllSettled(res) == \A r \in Resources : res[r].status # "pending"

\* ------------------------------------------------------------------------
\* Init: everything after the await, run to completion
\* ------------------------------------------------------------------------
\* setupModalClose adds the click and keydown listeners.
setupModalClose == TRUE

InitContinue ==
  /\ pc = "awaiting"
  /\ AllSettled(results)
  /\ now' \in Nows
  /\ zone' \in TimeZones
  /\ LET user    == WithFallback(MappedValue(results["user"], NullOf("user")),
                                 FALLBACK_USER)
         skills  == WithFallback(MappedValue(results["skills"], NullOf("skills")),
                                 FALLBACK_SKILLS)
         ratings == WithFallback(MappedValue(results["ratings"], NullOf("ratings")),
                                 FALLBACK_RATINGS)
     IN
     /\ userData' = user
     /\ ratingsData' = ratings
     /\ IF ~ValidSkills(skills)
        THEN /\ main' = showLoader("Error: skills.json malformed - check console.")
             /\ pc' = "halted"
             /\ skillsData' = skills
             /\ UNCHANGED <<header, totalSkills, totalCategories, expWrites, caught,
                            modalWired>>
        ELSE IF ~ValidRatings(ratings)
        THEN /\ main' = showLoader("Error: ratings.json malformed - check console.")
             /\ pc' = "halted"
             /\ skillsData' = skills
             /\ UNCHANGED <<header, totalSkills, totalCategories, expWrites, caught,
                            modalWired>>
        ELSE
          LET categoriesMap == user.categories
              items == NormalizeSkills(skills.items, categoriesMap)
              hdr == populateHeader(user)
              experienceYears ==
                ExperienceYears(user, computeExperienceYearsFromSkills(items, now', zone'))
              grid == renderSkillsGrid(items, ratings, categoriesMap, now', zone')
          IN
          /\ skillsData' = [skills EXCEPT !.items = items]
          /\ header' = hdr.header
          /\ caught' = IF hdr.threw THEN {"populateHeader"} ELSE {}
          /\ IF grid.threw
             THEN \* main.innerHTML = '' ran; the TypeError leaves init.
                  /\ main' = [kind |-> "empty", text |-> "", sections |-> <<>>]
                  /\ pc' = "crashed"
                  /\ UNCHANGED <<totalSkills, totalCategories, expWrites, modalWired>>
             ELSE /\ main' = [kind |-> "grid", text |-> "", sections |-> grid.sections]
                  /\ totalSkills' = grid.totalSkills
                  /\ totalCategories' = grid.totalCategories
                  /\ expWrites' = <<ExperienceText(grid.experienceYears),
                                    ExperienceText(experienceYears)>>
                  /\ modalWired' = setupModalClose
                  /\ pc' = "done"
  /\ UNCHANGED <<net, results, modalVars>>

\* ------------------------------------------------------------------------
\* User-interface events
\* ------------------------------------------------------------------------
\* The history of the modal kept for the properties: the event, the modal
\* before it, and whether it changed the modal.
Record(event, after, effect) ==
  /\ lastEvent' = event
  /\ prevModal' = modal
  /\ lastEffective' = IF after # modal THEN effect ELSE lastEffective

\* A click on the card at (g, c): its listener calls openSkillModal with the
\* skill and the rating the card was created with.
CardClick(g, c) ==
  /\ main.kind = "grid"
  /\ g \in 1..Len(main.sections)
  /\ c \in 1..Len(main.sections[g].cards)
  /\ LET card == main.sections[g].cards[c]
         after == openSkillModal(modal, card.skill, card.rating)
     IN /\ modal' = after
        /\ Record("card", after, "open")
  /\ lastOpened' = [section |-> g, card |-> c]
  /\ UNCHANGED <<net, clock, results, initVars>>

\* A click on the close button or on the backdrop, once setupModalClose
\* added the listener: close().
CloseClick(target) ==
  /\ modalWired
  /\ LET after == CloseModal(modal)
     IN /\ modal' = after
        /\ Record(target, after, "close")
  /\ UNCHANGED <<net, clock, results, initVars, lastOpened>>

\* A key press anywhere in the document, once setupModalClose added the
\* keydown listener.
Keydown(key) ==
  /\ modalWired
  /\ LET after == OnKeydown(modal, key)
     IN /\ modal' = after
        /\ Record(key, after, "close")
  /\ UNCHANGED <<net, clock, results, initVars, lastOpened>>

Next ==
  \/ \E r \in Resources : FetchSettles(r)
  \/ InitContinue
  \/ \E g \in 1..MaxSkills, c \in 1..MaxSkills : CardClick(g, c)
  \/ \E target \in {"closeButton", "backdrop"} : CloseClick(target)
  \/ \E key \in {"Escape", "Enter"} : Keydown(key)

Spec == Init /\ [][Next]_vars

\* ------------------------------------------------------------------------
\* Properties
\* ------------------------------------------------------------------------
\* The places (section, card) of the rendered cards, and the card at a place.
CardPlaces ==
  { p \in (1..Len(main.sections)) \X (1..(MaxSkills + 1)) :
      p[2] <= Len(main.sections[p[1]].cards) }
CardAt(p) == main.sections[p[1]].cards[p[2]]

Ids(items) == [i \in 1..Len(items) |-> items[i].id]

\* C1: for every combination of fetch outcomes init reaches validation with
\* three values, where a resource whose fetch succeeded keeps the fetched
\* value and a resource whose fetch failed, and no other, holds its fallback.
\* (The skills are compared by their ids: normalization fills categories in.)
C1_FallbackExactlyOnFailure ==
  pc # "awaiting" =>
    /\ userData = IF net["user"].ok THEN net["user"].value ELSE FALLBACK_USER
    /\ ratingsData = IF net["ratings"].ok THEN net["ratings"].value ELSE FALLBACK_RATINGS
    /\ skillsData.kind = IF net["skills"].ok THEN net["skills"].value.kind ELSE "array"
    /\ Ids(skillsData.items) = IF net["skills"].ok THEN Ids(net["skills"].value.items)
                               ELSE <<"python", "javascript">>

\* The two messages init shows for malformed data.
MalformedMessages ==
  { "Error: skills.json malformed - check console.",
    "Error: ratings.json malformed - check console." }
\* C2: once init has passed its await, it has halted exactly if the skills
\* value is not a sequence or the ratings value is not a mapping; halted, the
\* main element shows a malformed-data message and nothing else was rendered
\* or wired; otherwise the header was populated and the grid was attempted.
C2_MalformedHaltsWithoutRender ==
  pc # "awaiting" =>
    IF skillsData.kind # "array" \/ ratingsData.kind # "object"
    THEN /\ pc = "halted"
         /\ main.kind = "loader" /\ main.text \in MalformedMessages
         /\ main.sections = <<>>
         /\ header = HeaderAtLoad
         /\ totalSkills = NoNum /\ totalCategories = NoNum /\ expWrites = <<>>
         /\ ~modalWired
    ELSE /\ pc \in {"done", "crashed"}
         /\ header # HeaderAtLoad
         /\ main.kind # "loader"
C2_HaltedOnObjectSkills ==
  /\ pc = "halted"
  /\ net["skills"].ok /\ net["skills"].value.kind = "object"
  /\ main.text = "Error: skills.json malformed - check console."

EmbeddedRating(id) ==
  CASE id = "python" -> 8 [] id = "javascript" -> 7 [] OTHER -> 0
EmbeddedLabel(id) == IF id \in {"python", "javascript"} THEN "Advanced" ELSE "Beginner"
C4_OverrideAlwaysWins ==
  pc = "done" =>
    expWrites[Len(expWrites)] =
      <<IF userData.totalYears # NoNum THEN userData.totalYears
        ELSE computeExperienceYearsFromSkills(skillsData.items, now, zone), "+">>

FullElapsedYears(start, today) ==
  LET diff == today.y - start.y
      early == today.m < start.m \/ (today.m = start.m /\ today.d < start.d)
  IN Max2(0, IF early THEN diff - 1 ELSE diff)
\* C5: computeExperienceYearsFromSkills gives the full years elapsed between
\* the earliest valid start date and the current date: the difference of the
\* years, less 1 when the current month/day precedes the start date's, never
\* negative, and 0 without a valid start date.  renderSkillsGrid writes its
\* result to the experience slot first.
C5_FullElapsedYears ==
  pc = "done" =>
    LET valid == { skillsData.items[i].startDate : i \in
                     { j \in 1..Len(skillsData.items) :
                         skillsData.items[j].startDate.kind = "iso" } }
    IN expWrites[1] =
         IF valid = {} THEN <<0, "+">>
         ELSE LET first == CHOOSE d \in valid :
                             \A e \in valid : <<d.y, d.m, d.d>> = <<e.y, e.m, e.d>>
                               \/ d.y < e.y \/ (d.y = e.y /\ d.m < e.m)
                               \/ (d.y = e.y /\ d.m = e.m /\ d.d < e.d)
              IN <<FullElapsedYears(first, now), "+">>

CloseEvents == {"closeButton", "backdrop", "Escape"}
\* C7: the modal is open exactly if the last event that changed it was a card
\* activation; a card activation leaves it open; a close-button click, a
\* backdrop click or Escape leaves it closed, and when it was closed already
\* such an event changes neither its state nor its content.
C7_ModalStateMachine ==
  /\ ~modal.hidden <=> lastEffective = "open"
  /\ lastEvent = "card" => ~modal.hidden
  /\ lastEvent \in CloseEvents => modal.hidden
  /\ (lastEvent \in CloseEvents /\ prevModal.hidden) => modal = prevModal
  /\ lastEvent = "none" => modal = ModalAtLoad
C7_EscapeClosedOpenModal ==
  /\ lastEvent = "Escape"
  /\ ~prevModal.hidden
  /\ modal.hidden
  /\ lastEffective = "close"

\* C8: after any sequence of open and close events the modal's fields are
\* those of the skill opened last and of its rating, with no entry of a skill
\* opened before: the project and resource lists hold that skill's entries, or
\* the placeholder alone when it has none.
C8_ModalShowsLastOpenedOnly ==
  lastOpened # NoCard =>
    LET card == CardAt(<<lastOpened.section, lastOpened.card>>)
        skill == card.skill
        n == IF card.rating > 10 THEN 10 ELSE IF card.rating < 0 THEN 0 ELSE card.rating
    IN /\ modal.img = IF skill.imageUrl \in {NoValue, ""}
                      THEN "https://via.placeholder.com/80?text=Skill"
                      ELSE skill.imageUrl
       /\ modal.title = skill.name
       /\ modal.category = IF skill.category \notin {NoValue, ""} THEN skill.category
                           ELSE IF skill.categoryId \notin {NoValue, ""}
                           THEN skill.categoryId ELSE "Uncategorized"
       /\ modal.description = IF skill.description = NoValue THEN "" ELSE skill.description
       /\ modal.barWidth = 10 * n
       /\ modal.ratingText = <<n, "/10", ratingLabel(n)>>
       /\ modal.startDate = IF skill.startDate = NoDate THEN EmDash ELSE skill.startDate
       /\ modal.projects = IF skill.projects = <<>> THEN <<"No projects listed.">>
                           ELSE skill.projects
       /\ Len(modal.resources) = Max2(1, Len(skill.resources))
       /\ skill.resources = <<>> =>
            modal.resources[1].text = "No resources available."
       /\ \A i \in 1..Len(skill.resources) :
            /\ modal.resources[i].text =
                 IF skill.resources[i].name # NoValue THEN skill.resources[i].name
                 ELSE IF skill.resources[i].url # NoValue THEN skill.resources[i].url
                 ELSE "link"
            /\ modal.resources[i].href =
                 IF skill.resources[i].url # NoValue THEN skill.resources[i].url ELSE "#"
C8_ReopenedWithOtherSkill ==
  /\ lastEvent = "card"
  /\ prevModal.hidden /\ prevModal.title = "Python" /\ Len(prevModal.projects) = 2
  /\ Len(prevModal.resources) = 1
  /\ ~modal.hidden /\ modal.title = "Go"
  /\ modal.projects = <<"No projects listed.">>
  /\ Len(modal.resources) = 1 /\ modal.resources[1].text = "No resources available."

\* C9: when a rendering step of init throws, the exception is caught at its
\* call site and the remaining steps still run: once init has passed
\* validation, the experience statistic is written and the modal close
\* handlers are wired, whatever threw.
C9_RenderErrorsContained ==
  pc \in {"done", "crashed"} =>
    /\ pc = "done"
    /\ Len(expWrites) >= 1
    /\ modalWired

AfterFallback(r, fallback) ==
  IF net[r].ok /\ net[r].value.kind # "null" THEN net[r].value ELSE fallback
\* C10: nothing of init's continuation happens while a fetch is pending: no
\* fallback, no validation message, no header, no grid, no statistic, no modal
\* wiring; and once it has run, its values and the rendered grid are
\* determined by the three outcomes, whatever the order they arrived in.
C10_BarrierAndOrderIndependence ==
  /\ (\E r \in Resources : results[r].status = "pending") =>
       /\ pc = "awaiting"
       /\ userData = NullOf("user") /\ skillsData = NullOf("skills")
       /\ ratingsData = NullOf("ratings")
       /\ main = showLoader("Initializing skill matrix... Accessing data nodes...")
       /\ header = HeaderAtLoad
       /\ totalSkills = NoNum /\ totalCategories = NoNum /\ expWrites = <<>>
       /\ ~modalWired /\ modal = ModalAtLoad
  /\ pc # "awaiting" =>
       /\ userData = AfterFallback("user", FALLBACK_USER)
       /\ ratingsData = AfterFallback("ratings", FALLBACK_RATINGS)
       /\ skillsData.kind = AfterFallback("skills", FALLBACK_SKILLS).kind
       /\ Ids(skillsData.items) = Ids(AfterFallback("skills", FALLBACK_SKILLS).items)
  /\ pc = "done" =>
       main.sections =
         renderSkillsGrid(skillsData.items, ratingsData, userData.categories,
                          now, zone).sections
C10_RenderedAfterMixedOutcomes ==
  /\ pc = "done"
  /\ ~net["skills"].ok /\ net["user"].ok /\ net["ratings"].ok
  /\ \A r \in Resources : results[r].status # "pending"
  /\ Len(main.sections) = 1 /\ Len(main.sections[1].cards) = 2

\* C11: within every rendered group the cards are ordered by priority
\* descending, a missing priority counting as 0, then by name ascending, and
\* cards of equal priority and equal name keep the order their skills have in
\* the input list.
C11_GroupOrderStable ==
  pc = "done" =>
    LET pri(s) == IF s.priority = NoNum THEN 0 ELSE s.priority
        nameOf(s) == IF s.name \in {NoValue, ""} THEN "" ELSE s.name
        at(s) == CHOOSE i \in 1..Len(skillsData.items) : skillsData.items[i].id = s.id
    IN \A g \in 1..Len(main.sections) :
         \A i, j \in 1..Len(main.sections[g].cards) :
           i < j =>
             LET a == main.sections[g].cards[i].skill
                 b == main.sections[g].cards[j].skill
             IN \/ pri(a) > pri(b)
                \/ pri(a) = pri(b) /\ Rank(nameOf(a)) < Rank(nameOf(b))
                \/ pri(a) = pri(b) /\ nameOf(a) = nameOf(b) /\ at(a) < at(b)
C11_TieKeepsInputOrder ==
  /\ pc = "done"
  /\ Ids(skillsData.items) = <<"golang", "go">>
  /\ Len(main.sections) = 1
  /\ main.sections[1].cards[1].skill.id = "golang"
  /\ main.sections[1].cards[1].skill.priority = 0
  /\ main.sections[1].cards[2].skill.id = "go"
  /\ main.sections[1].cards[2].skill.priority = NoNum
  /\ main.sections[1].cards[1].skill.name = main.sections[1].cards[2].skill.name

====
